---- MODULE Spec2Model ----
(***************************************************************************)
(* A model of the tree shaker of src/main.ts (the last version in the      *)
(* file, lines 365-590): Module, Graph, Chunk and the treeShaker           *)
(* orchestrator.                                                           *)
(*                                                                         *)
(* Source texts are TLA+ strings; a span [start, end) is 0-based as in     *)
(* acorn, so String.prototype.slice(start, end) is SubSeq(s, start+1, end).*)
(***************************************************************************)
EXTENDS Integers, Sequences, FiniteSets, TLC

VARIABLES
    handle,      \* the promise treeShaker() returned: idle, pending, obtained, rejected
    options,     \* Object.entries(options.chunks) of the call
    unreadable,  \* the locations readFile rejects for
    chunks,      \* the chunks array of treeShaker: each chunk with its graph
    outputs,     \* the results of the calls of generate() so far
    mod,         \* the Module under test of the Module-level specification
    removed,     \* its last withRemovedNodes argument
    code,        \* its last getCode() result
    notUsed,     \* its last calculateNotUsedImportDeclarations() result
    pc           \* where the Module-level specification stands

vars == <<handle, options, unreadable, chunks, outputs,
          mod, removed, code, notUsed, pc>>

graphVars == <<handle, options, unreadable, chunks, outputs>>

(***************************************************************************)
(* Bounds of the model.                                                    *)
(***************************************************************************)
MaxChunks == 2      \* chunks in one treeShaker() call
MaxTasks == 6       \* initModuleRecursively invocations per graph
MaxGenerate == 2    \* calls of generate() on one handle
MaxStmts == 3       \* statements of a module under test

(***************************************************************************)
(* Sequence helpers.                                                       *)
(***************************************************************************)
Range(s) == {s[i] : i \in DOMAIN s}

RECURSIVE Concat(_)
Concat(texts) ==
    IF texts = <<>> THEN "" ELSE Head(texts) \o Concat(Tail(texts))

RECURSIVE JoinComma(_)
JoinComma(texts) ==
    IF texts = <<>> THEN ""
    ELSE IF Len(texts) = 1 THEN texts[1]
    ELSE texts[1] \o "," \o JoinComma(Tail(texts))

Contains(text, sub) ==
    \E i \in 1..(Len(text) - Len(sub) + 1) : SubSeq(text, i, i + Len(sub) - 1) = sub

\* String.prototype.slice(start, end) for 0 <= start <= end <= length
Slice(text, start, end) == SubSeq(text, start + 1, end)

(***************************************************************************)
(* The parser collaborator (acorn): statements are written down as         *)
(* descriptors, StmtText is the text of a statement and StmtNode the node  *)
(* acorn returns for it at a given offset.                                 *)
(***************************************************************************)
Named(imported, local) ==
    [type |-> "ImportSpecifier", importedType |-> "Identifier",
     imported |-> imported, local |-> local]
NamedLiteral(imported, local) ==
    [type |-> "ImportSpecifier", importedType |-> "Literal",
     imported |-> imported, local |-> local]
Default(local) ==
    [type |-> "ImportDefaultSpecifier", importedType |-> "None",
     imported |-> "", local |-> local]
Namespace(local) ==
    [type |-> "ImportNamespaceSpecifier", importedType |-> "None",
     imported |-> "", local |-> local]

Import(specs, from) ==
    [kind |-> "import", specs |-> specs, from |-> from, name |-> "", text |-> ""]
Call(name) ==
    [kind |-> "call", specs |-> <<>>, from |-> "", name |-> name, text |-> ""]
MemberCall(object) ==
    [kind |-> "membercall", specs |-> <<>>, from |-> "", name |-> object, text |-> ""]
Expr(name) ==
    [kind |-> "expr", specs |-> <<>>, from |-> "", name |-> name, text |-> ""]
Other(text) ==
    [kind |-> "other", specs |-> <<>>, from |-> "", name |-> "", text |-> text]

SpecifierText(s) ==
    CASE s.type = "ImportDefaultSpecifier" -> s.local
      [] s.type = "ImportNamespaceSpecifier" -> "* as " \o s.local
      [] s.importedType = "Literal" -> "'" \o s.imported \o "' as " \o s.local
      [] s.imported = s.local -> s.imported
      [] OTHER -> s.imported \o " as " \o s.local

SpecifierTexts(specs) == [i \in DOMAIN specs |-> SpecifierText(specs[i])]

IsBraced(specs) == specs # <<>> /\ specs[1].type = "ImportSpecifier"

StmtText(st) ==
    CASE st.kind = "import" ->
            IF st.specs = <<>> THEN "import'" \o st.from \o "';"
            ELSE IF IsBraced(st.specs)
                 THEN "import{" \o JoinComma(SpecifierTexts(st.specs))
                        \o "}from'" \o st.from \o "';"
                 ELSE "import " \o JoinComma(SpecifierTexts(st.specs))
                        \o " from'" \o st.from \o "';"
      [] st.kind = "call" -> st.name \o "();"
      [] st.kind = "membercall" -> st.name \o ".run();"
      [] st.kind = "expr" -> st.name \o ";"
      [] OTHER -> st.text

RECURSIVE SpecifierNodes(_, _)
SpecifierNodes(specs, offset) ==
    IF specs = <<>> THEN <<>>
    ELSE LET s == Head(specs)
             end == offset + Len(SpecifierText(s))
         IN  <<[type |-> s.type, start |-> offset, end |-> end,
                imported |-> [type |-> s.importedType, name |-> s.imported],
                local |-> [type |-> "Identifier", name |-> s.local]]>>
             \o SpecifierNodes(Tail(specs), end + 1)

NoNode == [type |-> "None", start |-> 0, end |-> 0, name |-> ""]

\* "import{" and "import " are both 7 characters long
StmtNode(st, offset) ==
    LET end == offset + Len(StmtText(st))
        base == [type |-> "Other", start |-> offset, end |-> end,
                 source |-> [value |-> ""], specifiers |-> <<>>,
                 expression |-> [type |-> "None", callee |-> NoNode]]
    IN  CASE st.kind = "import" ->
                [base EXCEPT !.type = "ImportDeclaration",
                             !.source = [value |-> st.from],
                             !.specifiers = SpecifierNodes(st.specs, offset + 7)]
          [] st.kind = "call" ->
                [base EXCEPT !.type = "ExpressionStatement",
                             !.expression =
                                [type |-> "CallExpression",
                                 callee |-> [type |-> "Identifier", start |-> offset,
                                             end |-> offset + Len(st.name),
                                             name |-> st.name]]]
          [] st.kind = "membercall" ->
                [base EXCEPT !.type = "ExpressionStatement",
                             !.expression =
                                [type |-> "CallExpression",
                                 callee |-> [type |-> "MemberExpression", start |-> offset,
                                             end |-> offset + Len(st.name) + 4,
                                             name |-> ""]]]
          [] st.kind = "expr" ->
                [base EXCEPT !.type = "ExpressionStatement",
                             !.expression =
                                [type |-> "Identifier",
                                 callee |-> NoNode]]
          [] OTHER -> base

SourceOf(stmts) == Concat([i \in DOMAIN stmts |-> StmtText(stmts[i])])

RECURSIVE BodyOf(_, _)
BodyOf(stmts, offset) ==
    IF stmts = <<>> THEN <<>>
    ELSE LET node == StmtNode(Head(stmts), offset)
         IN  <<node>> \o BodyOf(Tail(stmts), node.end)

(***************************************************************************)
(* The edit buffer collaborator (MagicString): the original string cut     *)
(* into chunks; remove(start, end) splits the chunks at both offsets and   *)
(* empties the chunks between them; toString() joins what is left.         *)
(***************************************************************************)
NewMagicString(source) ==
    [original |-> source,
     pieces |-> <<[start |-> 0, end |-> Len(source), removed |-> FALSE]>>]

RECURSIVE SplitPieces(_, _)
SplitPieces(pieces, index) ==
    IF pieces = <<>> THEN <<>>
    ELSE LET p == Head(pieces)
         IN  IF p.start < index /\ index < p.end
             THEN <<[p EXCEPT !.end = index], [p EXCEPT !.start = index]>> \o Tail(pieces)
             ELSE <<p>> \o SplitPieces(Tail(pieces), index)

MagicStringRemove(str, start, end) ==
    IF start = end THEN str
    ELSE LET split == SplitPieces(SplitPieces(str.pieces, start), end)
         IN  [str EXCEPT !.pieces =
                 [i \in DOMAIN split |->
                     IF start <= split[i].start /\ split[i].end <= end
                     THEN [split[i] EXCEPT !.removed = TRUE]
                     ELSE split[i]]]

MagicStringToString(str) ==
    Concat([i \in DOMAIN str.pieces |->
               IF str.pieces[i].removed THEN ""
               ELSE Slice(str.original, str.pieces[i].start, str.pieces[i].end)])

(***************************************************************************)
(* Module (src/main.ts 394-501).  A module is the record of its fields.    *)
(***************************************************************************)
NodeToPlain(m, node) == Slice(m.source, node.start, node.end)

CalculateImportDeclarations(m) ==
    SelectSeq(m.program.body, LAMBDA node : node.type = "ImportDeclaration")

CalculateDependencyPaths(m) ==
    LET decls == CalculateImportDeclarations(m)
    IN  [i \in DOMAIN decls |-> decls[i].source.value]

\* the Map<ImportDeclaration, ImportSpecifier[]>, in insertion order; its keys are
\* the declaration nodes, which are distinct objects
CalculateImportSpecifiersMap(m) ==
    LET decls == CalculateImportDeclarations(m)
    IN  [i \in DOMAIN decls |->
            [key |-> decls[i],
             value |-> SelectSeq(decls[i].specifiers,
                          LAMBDA importSpecifier :
                              /\ importSpecifier.type = "ImportSpecifier"
                              /\ importSpecifier.imported.type = "Identifier")]]

CalculateUsedSpecifiersInModuleBody(m) ==
    LET calls == SelectSeq(m.program.body,
                    LAMBDA node : /\ node.type = "ExpressionStatement"
                                  /\ node.expression.type = "CallExpression"
                                  /\ node.expression.callee.type = "Identifier")
    IN  [i \in DOMAIN calls |-> calls[i].expression.callee]

AnyUsedByName(m, importSpecifiers, usedSpecifiers) ==
    \E i \in DOMAIN importSpecifiers : \E u \in DOMAIN usedSpecifiers :
        usedSpecifiers[u].name = importSpecifiers[i].imported.name

AnyUsed(m, importSpecifiers, usedSpecifiers) ==
    \E i \in DOMAIN importSpecifiers : \E u \in DOMAIN usedSpecifiers :
        NodeToPlain(m, usedSpecifiers[u]) = NodeToPlain(m, importSpecifiers[i])

CalculateNotUsedImportDeclarations(m) ==
    LET importSpecifiersMap == CalculateImportSpecifiersMap(m)
        usedSpecifiers == CalculateUsedSpecifiersInModuleBody(m)
        notUsedEntries == SelectSeq(importSpecifiersMap,
                      LAMBDA entry : ~AnyUsed(m, entry.value, usedSpecifiers))
    IN  [i \in DOMAIN notUsedEntries |-> notUsedEntries[i].key]

\* removal by re-slicing the current text at the original offsets
RECURSIVE RemoveNodesBySlicing(_, _)
RemoveNodesBySlicing(str, nodes) ==
    IF nodes = <<>> THEN str
    ELSE LET text == MagicStringToString(str)
             n == Head(nodes)
             cut == SubSeq(text, 1, n.start) \o SubSeq(text, n.end + 1, Len(text))
         IN  RemoveNodesBySlicing(NewMagicString(cut), Tail(nodes))

RECURSIVE RemoveNodes(_, _)
RemoveNodes(str, nodes) ==
    IF nodes = <<>> THEN str
    ELSE RemoveNodes(MagicStringRemove(str, Head(nodes).start, Head(nodes).end),
                     Tail(nodes))

GetCode(m, withRemovedNodes) ==
    LET str == NewMagicString(m.source)
    IN  IF withRemovedNodes # <<>>
        THEN MagicStringToString(RemoveNodes(str, withRemovedNodes))
        ELSE MagicStringToString(str)

\* getCode() edits a MagicString built from this.source and assigns to no field
\* of the module: the module after the call
StoredBySharing(m, withRemovedNodes) ==
    [m EXCEPT !.source = GetCode(m, withRemovedNodes)]

ModuleAfterGetCode(m, withRemovedNodes) == m

(***************************************************************************)
(* The world outside: the files on disk, URL resolution, the loader and    *)
(* the parser.                                                             *)
(***************************************************************************)
Base == "file:///src/"
Parent == "file:///src/test.js"

\* the fixture files, by canonical location; s.js is malformed
Files ==
    [href \in {"file:///src/e.js", "file:///src/x.js", "file:///src/y.js",
               "file:///src/z.js", "file:///src/a.js", "file:///src/b.js",
               "file:///src/f.js", "file:///src/g.js"} |->
        CASE href = "file:///src/e.js" ->
                <<Import(<<Named("x", "x")>>, "./x.js"),
                  Import(<<Named("y", "y")>>, "./y.js"), Call("x")>>
          [] href = "file:///src/x.js" ->
                <<Import(<<Named("z", "z")>>, "./z.js"), Call("z")>>
          [] href = "file:///src/y.js" ->
                <<Import(<<Named("z", "w")>>, "../src/z.js"), Call("w")>>
          [] href = "file:///src/z.js" ->
                <<Other("export function z(){}")>>
          [] href = "file:///src/a.js" ->
                <<Import(<<Named("b", "b")>>, "./b.js"), Call("b")>>
          [] href = "file:///src/b.js" ->
                <<Import(<<Named("a", "a")>>, "./a.js"), Call("a")>>
          [] href = "file:///src/f.js" ->
                <<Import(<<Named("g", "g")>>, "./g.js"),
                  Import(<<Named("s", "s")>>, "./s.js"), Call("g"), Call("s")>>
          [] OTHER ->
                <<Import(<<>>, "http://")>>]

Malformed == "file:///src/s.js"
Locations == DOMAIN Files \cup {Malformed}

\* what readFile() returns for each location
FileTexts ==
    [href \in Locations |->
        IF href = Malformed THEN "import{" ELSE SourceOf(Files[href])]

FileText(href) == FileTexts[href]

Programs == [href \in DOMAIN Files |-> [body |-> BodyOf(Files[href], 0)]]

StartsWith(text, prefix) ==
    Len(text) >= Len(prefix) /\ SubSeq(text, 1, Len(prefix)) = prefix

\* new URL(input, parentUrl) for a parent inside Base: "./p" and "../src/p" name
\* the same location, an absolute URL without a host is invalid
Resolve(input, parentUrl) ==
    CASE StartsWith(input, "./") ->
            [ok |-> TRUE, href |-> Base \o SubSeq(input, 3, Len(input))]
      [] StartsWith(input, "../src/") ->
            [ok |-> TRUE, href |-> Base \o SubSeq(input, 8, Len(input))]
      [] OTHER -> [ok |-> FALSE, href |-> ""]

NoProgram == [body |-> <<>>]

\* acorn's parse(): the program of a well-formed text, or a SyntaxError
Parse(source) ==
    IF \E href \in DOMAIN Files : FileTexts[href] = source
    THEN LET href == CHOOSE h \in DOMAIN Files : FileTexts[h] = source
         IN  [ok |-> TRUE, program |-> Programs[href]]
    ELSE [ok |-> FALSE, program |-> NoProgram]

NewModule(input, parentUrl) ==
    [input |-> input, parentUrl |-> parentUrl, resolvedPath |-> "",
     source |-> "", program |-> NoProgram]

(***************************************************************************)
(* Promises.  A promise is [status, error]; Promise.all rejects with the   *)
(* first rejection and fulfils once every promise has.                     *)
(***************************************************************************)
Pending == [status |-> "pending", error |-> ""]
Fulfilled == [status |-> "fulfilled", error |-> ""]
Rejected(error) == [status |-> "rejected", error |-> error]

PromiseAll(promises) ==
    IF \E i \in DOMAIN promises : promises[i].status = "rejected"
    THEN promises[CHOOSE i \in DOMAIN promises :
                    /\ promises[i].status = "rejected"
                    /\ \A j \in DOMAIN promises :
                          promises[j].status = "rejected" => i <= j]
    ELSE IF \A i \in DOMAIN promises : promises[i].status = "fulfilled"
         THEN Fulfilled
         ELSE Pending

(***************************************************************************)
(* Graph (src/main.ts 506-544).  A graph is its modules map, kept as the   *)
(* sequence of its entries in insertion order, and the invocations of      *)
(* initModuleRecursively (tasks), each the child of the one that made it.  *)
(***************************************************************************)
\* a URL object: Map compares keys that are objects by identity
NewURL(id, href) == [id |-> id, href |-> href]

SameKey(k1, k2) == k1.id = k2.id

MapSet(entries, key, value) ==
    IF \E i \in DOMAIN entries : SameKey(entries[i].key, key)
    THEN [i \in DOMAIN entries |->
             IF SameKey(entries[i].key, key)
             THEN [entries[i] EXCEPT !.value = value] ELSE entries[i]]
    ELSE Append(entries, [key |-> key, value |-> value])

TaskPromise(task) ==
    CASE task.phase = "fulfilled" -> Fulfilled
      [] task.phase = "rejected" -> Rejected(task.error)
      [] OTHER -> Pending

\* a call of initModuleRecursively(path, parent) up to its first suspension:
\* new Module, resolve(), and readFile() started
StartTask(tasks, path, parent, up) ==
    LET url == Resolve(path, parent)
        module == NewModule(path, parent)
    IN  Append(tasks,
           IF url.ok
           THEN [module |-> [module EXCEPT !.resolvedPath = url.href],
                 up |-> up, phase |-> "loading", error |-> ""]
           ELSE [module |-> module, up |-> up, phase |-> "rejected",
                 error |-> "TypeError"])

RECURSIVE StartTasks(_, _, _, _)
StartTasks(tasks, paths, parent, up) ==
    IF paths = <<>> THEN tasks
    ELSE StartTasks(StartTask(tasks, Head(paths), parent, up), Tail(paths), parent, up)

ChildPromises(tasks, t) ==
    LET children == SelectSeq([i \in DOMAIN tasks |-> i], LAMBDA i : tasks[i].up = t)
    IN  [k \in DOMAIN children |-> TaskPromise(tasks[children[k]])]

\* the awaits of Promise.all(...) that can continue, continued until none can
\* the dependencies started but not awaited: the caller goes on at once
SettleWithoutAwait(tasks) ==
    [t \in DOMAIN tasks |->
        IF tasks[t].phase = "awaitingAll"
        THEN [tasks[t] EXCEPT !.phase = "fulfilled"] ELSE tasks[t]]

RECURSIVE Settle(_)
Settle(tasks) ==
    LET ready == {t \in DOMAIN tasks :
                    /\ tasks[t].phase = "awaitingAll"
                    /\ PromiseAll(ChildPromises(tasks, t)).status # "pending"}
    IN  IF ready = {} THEN tasks
        ELSE LET t == CHOOSE x \in ready : \A y \in ready : y <= x
                 all == PromiseAll(ChildPromises(tasks, t))
             IN  Settle([tasks EXCEPT ![t].phase = all.status, ![t].error = all.error])

NewGraph == [modules |-> <<>>, tasks |-> <<>>]

GraphBuild(graph, source, parent) ==
    [graph EXCEPT !.tasks = Settle(StartTask(graph.tasks, source, parent, 0))]

GraphPromise(graph) == TaskPromise(graph.tasks[1])

RemoveUnusedImports(graph) ==
    [i \in DOMAIN graph.modules |->
        LET module == graph.modules[i].value
        IN  [key |-> module,
             value |-> GetCode(module, CalculateNotUsedImportDeclarations(module))]]

GraphAfterRemoveUnusedImports(graph) ==
    [graph EXCEPT !.modules =
        [i \in DOMAIN graph.modules |->
            [graph.modules[i] EXCEPT !.value =
                ModuleAfterGetCode(graph.modules[i].value,
                    CalculateNotUsedImportDeclarations(graph.modules[i].value))]]]

\* initModule after `await module.init()`'s readFile resolved, and the rest of
\* initModuleRecursively up to `await Promise.all(...)`
ContinueInit(graph, t) ==
    LET task == graph.tasks[t]
        source == FileText(task.module.resolvedPath)
        parsed == Parse(source)
    IN  IF ~parsed.ok
        THEN [graph EXCEPT !.tasks =
                 Settle([@ EXCEPT ![t].module.source = source,
                                  ![t].phase = "rejected",
                                  ![t].error = "SyntaxError"])]
        ELSE LET module == [task.module EXCEPT !.source = source,
                                               !.program = parsed.program]
                 registered == MapSet(graph.modules,
                                      NewURL(t, module.resolvedPath), module)
                 moduleDependencyPaths == CalculateDependencyPaths(module)
                 started == StartTasks(
                               [graph.tasks EXCEPT ![t].module = module,
                                                   ![t].phase = "awaitingAll"],
                               moduleDependencyPaths, module.resolvedPath, t)
             IN  [modules |-> registered, tasks |-> Settle(started)]

\* readFile() rejected: init() throws, and so does every await above it
FailLoad(graph, t) ==
    [graph EXCEPT !.tasks =
        Settle([@ EXCEPT ![t].phase = "rejected", ![t].error = "LoadError"])]

(***************************************************************************)
(* Chunk (src/main.ts 551-569) and treeShaker (574-590).                   *)
(***************************************************************************)
NewChunk(source, destination, parent) ==
    [source |-> source, destination |-> destination, parent |-> parent,
     graph |-> NewGraph]

ChunkBuild(chunk) ==
    [chunk EXCEPT !.graph = GraphBuild(@, chunk.source, chunk.parent)]

ChunkGenerateLast(chunk) ==
    LET withRemovedImports == RemoveUnusedImports(chunk.graph)
    IN  IF withRemovedImports = <<>> THEN "TypeError"
        ELSE withRemovedImports[Len(withRemovedImports)].value

\* const [[, code]] = withRemovedImports: the value of the map's first entry
ChunkGenerate(chunk) ==
    LET withRemovedImports == RemoveUnusedImports(chunk.graph)
    IN  IF withRemovedImports = <<>> THEN "TypeError"
        ELSE withRemovedImports[1].value

CreateChunksUnshift(entries) ==
    [i \in DOMAIN entries |->
        LET e == entries[Len(entries) + 1 - i]
        IN  ChunkBuild(NewChunk(e.source, e.destination, Parent))]

\* the synchronous part of every map callback: new Chunk, push, build() started
CreateChunks(entries) ==
    [i \in DOMAIN entries |->
        ChunkBuild(NewChunk(entries[i].source, entries[i].destination, Parent))]

ChunkPromises(cs) == [i \in DOMAIN cs |-> GraphPromise(cs[i].graph)]

TreeShakerAllSettled(cs) ==
    IF \E i \in DOMAIN cs : GraphPromise(cs[i].graph).status = "pending"
    THEN Pending ELSE Fulfilled

\* await Promise.all(chunk builds), then return the handle
TreeShakerPromise(cs) == PromiseAll(ChunkPromises(cs))

HandleOf(promise) ==
    CASE promise.status = "fulfilled" -> "obtained"
      [] promise.status = "rejected" -> "rejected"
      [] OTHER -> "pending"

GenerateAll(cs) == [i \in DOMAIN cs |-> ChunkGenerate(cs[i])]

ChunksAfterGenerate(cs) ==
    [i \in DOMAIN cs |->
        [cs[i] EXCEPT !.graph = GraphAfterRemoveUnusedImports(@)]]

(***************************************************************************)
(* The inputs of the model.                                                *)
(***************************************************************************)
EntrySpecifiers == {"./e.js", "./x.js", "./a.js", "./f.js"}
Destinations == <<"one.js", "two.js", "three.js", "four.js">>

ChunkEntries ==
    UNION {{[i \in 1..n |-> [destination |-> Destinations[i], source |-> f[i]]] :
               f \in [1..n -> EntrySpecifiers]} : n \in 1..MaxChunks}

\* readFile() fails for no file, or for one of these: an entry, a module that is
\* an entry and a dependency, or the leaf both sides of the diamond import
FaultLocations == {"file:///src/e.js", "file:///src/x.js", "file:///src/z.js"}
FaultSets == {{}} \cup {{href} : href \in FaultLocations}

(***************************************************************************)
(* The graph-level specification: one call of treeShaker(), the            *)
(* completions of readFile() in any order, and calls of generate().        *)
(***************************************************************************)
NoModule == NewModule("", "")

Init ==
    /\ handle = "idle"
    /\ options = <<>>
    /\ unreadable = {}
    /\ chunks = <<>>
    /\ outputs = <<>>
    /\ mod = NoModule
    /\ removed = <<>>
    /\ code = ""
    /\ notUsed = <<>>
    /\ pc = "graph"

CallTreeShaker(entries, faults) ==
    /\ handle = "idle"
    /\ pc = "graph"
    /\ options' = entries
    /\ unreadable' = faults
    /\ chunks' = CreateChunks(entries)
    /\ handle' = HandleOf(TreeShakerPromise(chunks'))
    /\ UNCHANGED <<outputs, mod, removed, code, notUsed, pc>>

LoadRejected(c, t) ==
    /\ chunks[c].graph.tasks[t].phase = "loading"
    /\ chunks[c].graph.tasks[t].module.resolvedPath \in unreadable
    /\ chunks' = [chunks EXCEPT ![c].graph = FailLoad(@, t)]
    /\ handle' = HandleOf(TreeShakerPromise(chunks'))
    /\ UNCHANGED <<options, unreadable, outputs, mod, removed, code, notUsed, pc>>

LoadResolved(c, t) ==
    /\ chunks[c].graph.tasks[t].phase = "loading"
    /\ chunks[c].graph.tasks[t].module.resolvedPath \notin unreadable
    /\ Len(ContinueInit(chunks[c].graph, t).tasks) <= MaxTasks
    /\ chunks' = [chunks EXCEPT ![c].graph = ContinueInit(@, t)]
    /\ handle' = HandleOf(TreeShakerPromise(chunks'))
    /\ UNCHANGED <<options, unreadable, outputs, mod, removed, code, notUsed, pc>>

Generate ==
    /\ handle = "obtained"
    /\ Len(outputs) < MaxGenerate
    /\ outputs' = Append(outputs, GenerateAll(chunks))
    /\ chunks' = ChunksAfterGenerate(chunks)
    /\ UNCHANGED <<handle, options, unreadable, mod, removed, code, notUsed, pc>>

Next ==
    \/ \E entries \in ChunkEntries : \E faults \in FaultSets :
          CallTreeShaker(entries, faults)
    \/ \E c \in DOMAIN chunks : \E t \in DOMAIN chunks[c].graph.tasks :
          LoadRejected(c, t)
    \/ \E c \in DOMAIN chunks : \E t \in DOMAIN chunks[c].graph.tasks :
          LoadResolved(c, t)
    \/ Generate

Spec == Init /\ [][Next]_vars

(***************************************************************************)
(* The Module-level specification: one initialized module, drawn from the  *)
(* bodies of at most MaxStmts statements of StmtPool, on which             *)
(* calculateNotUsedImportDeclarations() and getCode() are called.          *)
(***************************************************************************)
StmtPool ==
    {Import(<<Named("a", "a")>>, "./A.js"),
     Import(<<Named("a", "b")>>, "./B.js"),
     Import(<<Named("b", "b"), Named("c", "c")>>, "./C.js"),
     Import(<<Default("a")>>, "./D.js"),
     Import(<<Namespace("b")>>, "./N.js"),
     Import(<<>>, "./S.js"),
     Import(<<NamedLiteral("a", "c")>>, "./L.js"),
     Call("a"), Call("b"), MemberCall("c"), Expr("c")}

TestBodies == UNION {[1..n -> StmtPool] : n \in 0..MaxStmts}

\* a module after init() on a file holding the text of these statements
ParsedModule(stmts) ==
    [NewModule("./m.js", Parent) EXCEPT
        !.resolvedPath = Base \o "m.js",
        !.source = SourceOf(stmts),
        !.program = [body |-> BodyOf(stmts, 0)]]

\* the sequences of distinct import declarations of m: a set of them in some order
NodeOrders(m) ==
    LET decls == Range(CalculateImportDeclarations(m))
    IN  {order \in UNION {[1..n -> decls] : n \in 0..Cardinality(decls)} :
            \A i, j \in DOMAIN order : i # j => order[i] # order[j]}

InitModule ==
    /\ handle = "idle"
    /\ options = <<>>
    /\ unreadable = {}
    /\ chunks = <<>>
    /\ outputs = <<>>
    /\ mod \in {ParsedModule(stmts) : stmts \in TestBodies}
    /\ removed = <<>>
    /\ code = ""
    /\ notUsed = <<>>
    /\ pc = "ready"

Analyse ==
    /\ pc = "ready"
    /\ notUsed' = CalculateNotUsedImportDeclarations(mod)
    /\ pc' = "analysed"
    /\ UNCHANGED <<mod, removed, code>>
    /\ UNCHANGED graphVars

Edit(nodes) ==
    /\ pc = "analysed"
    /\ removed' = nodes
    /\ code' = GetCode(mod, nodes)
    /\ mod' = ModuleAfterGetCode(mod, nodes)
    /\ pc' = "edited"
    /\ UNCHANGED notUsed
    /\ UNCHANGED graphVars

NextModule ==
    \/ Analyse
    \/ \E nodes \in NodeOrders(mod) : Edit(nodes)

SpecModule == InitModule /\ [][NextModule]_vars

(***************************************************************************)
(* Notions the claims are stated with.                                     *)
(***************************************************************************)
BuildStatus(c) == GraphPromise(chunks[c].graph).status

EntryOf(c) == Resolve(options[c].source, Parent).href

RECURSIVE AncestorPaths(_, _)
AncestorPaths(tasks, t) ==
    IF tasks[t].up = 0 THEN {}
    ELSE {tasks[tasks[t].up].module.resolvedPath} \cup AncestorPaths(tasks, tasks[t].up)

\* the locations reachable from href through the import declarations of the files
RECURSIVE ReachableFrom(_, _)
ReachableFrom(todo, seen) ==
    IF todo = {} THEN seen
    ELSE LET href == CHOOSE h \in todo : TRUE
             deps == IF href \in DOMAIN Files
                     THEN {Resolve(Files[href][i].from, href).href :
                              i \in {j \in DOMAIN Files[href] :
                                        Files[href][j].kind = "import"}}
                     ELSE {}
         IN  ReachableFrom((todo \cup deps) \ (seen \cup {href}), seen \cup {href})

\* a declaration node of m is used: one of its named specifiers has the text of
\* the identifier called by a top-level call statement
DeclarationUsed(m, decl) ==
    \E s \in Range(decl.specifiers) :
        /\ s.type = "ImportSpecifier"
        /\ \E node \in Range(m.program.body) :
              /\ node.type = "ExpressionStatement"
              /\ node.expression.type = "CallExpression"
              /\ node.expression.callee.type = "Identifier"
              /\ SubSeq(m.source, node.expression.callee.start + 1,
                        node.expression.callee.end)
                    = SubSeq(m.source, s.start + 1, s.end)

\* the bytes of source outside every span of nodes, in their order
KeptText(source, nodes) ==
    Concat([i \in 1..Len(source) |->
               IF \E n \in Range(nodes) : n.start < i /\ i <= n.end
               THEN "" ELSE SubSeq(source, i, i)])

EditedText(m) ==
    KeptText(m.source,
             SelectSeq(m.program.body,
                       LAMBDA node : /\ node.type = "ImportDeclaration"
                                     /\ ~DeclarationUsed(m, node)))

\* the module init() makes of the file at href
FileModule(href) ==
    [resolvedPath |-> href, source |-> FileTexts[href], program |-> Programs[href]]

(***************************************************************************)
(* C1: after build() completes, every location is the key of at most one   *)
(* entry of the graph's module map (on the diamond, z.js appears once).     *)
(***************************************************************************)
C1_ModuleOnce ==
    \A c \in DOMAIN chunks :
        BuildStatus(c) = "fulfilled" =>
            \A i, j \in DOMAIN chunks[c].graph.modules :
                i # j => chunks[c].graph.modules[i].key.href
                            # chunks[c].graph.modules[j].key.href

(***************************************************************************)
(* C2: initModuleRecursively never starts on a location that one of its     *)
(* callers is still initializing: such a revisit is rejected with a         *)
(* CycleError, so build() on an import cycle terminates.                    *)
(***************************************************************************)
C2_CycleRejected ==
    \A c \in DOMAIN chunks :
        \A t \in DOMAIN chunks[c].graph.tasks :
            LET task == chunks[c].graph.tasks[t]
            IN  task.module.resolvedPath \in AncestorPaths(chunks[c].graph.tasks, t)
                    => task.phase = "rejected" /\ task.error = "CycleError"

(***************************************************************************)
(* C3: when the build of one chunk has failed and the build of another      *)
(* chunk has completed, the caller holds the handle that gives the          *)
(* completed chunk's output.                                                *)
(***************************************************************************)
C3_SiblingsUnaffected ==
    \A c, d \in DOMAIN chunks :
        (c # d /\ BuildStatus(c) = "rejected" /\ BuildStatus(d) = "fulfilled")
            => handle = "obtained"

C5_AllModulesInOutput ==
    \A k \in DOMAIN outputs : \A i \in DOMAIN options :
        \A href \in ReachableFrom({EntryOf(i)}, {}) :
            Contains(outputs[k][i], EditedText(FileModule(href)))

(***************************************************************************)
(* C6: the text generate() returns for a chunk holds every used import      *)
(* declaration of the chunk's entry module and none of its unused ones.     *)
(***************************************************************************)
C6_EntryImportsShaken ==
    \A k \in DOMAIN outputs : \A i \in DOMAIN options :
        LET entry == FileModule(EntryOf(i))
        IN  \A decl \in Range(entry.program.body) :
                decl.type = "ImportDeclaration" =>
                    (DeclarationUsed(entry, decl)
                        <=> Contains(outputs[k][i],
                                     SubSeq(entry.source, decl.start + 1, decl.end)))

C6_Witness ==
    /\ outputs # <<>>
    /\ \E i \in DOMAIN options :
          /\ options[i].source = "./e.js"
          /\ Contains(outputs[1][i], "import{x}from'./x.js';")
          /\ ~Contains(outputs[1][i], "./y.js")

(***************************************************************************)
(* C7: calculateNotUsedImportDeclarations() returns, in declaration order,  *)
(* exactly the import declarations none of whose named specifiers has the   *)
(* text of a top-level call's callee identifier; a declaration without      *)
(* named specifiers is returned, one with a matching specifier is not.      *)
(***************************************************************************)
C7_NotUsedExactly ==
    pc \in {"analysed", "edited"} =>
        /\ notUsed = SelectSeq(mod.program.body,
                        LAMBDA node : /\ node.type = "ImportDeclaration"
                                      /\ ~DeclarationUsed(mod, node))
        /\ \A node \in Range(mod.program.body) :
              (/\ node.type = "ImportDeclaration"
               /\ \A s \in Range(node.specifiers) : s.type # "ImportSpecifier")
                  => node \in Range(notUsed)

C7_Witness ==
    /\ pc = "analysed"
    /\ Len(CalculateImportDeclarations(mod)) = 2
    /\ Len(notUsed) = 1
    /\ notUsed[1].specifiers # <<>>
    /\ \A s \in Range(notUsed[1].specifiers) : s.type # "ImportSpecifier"

(***************************************************************************)
(* C8: getCode({withRemovedNodes}) is the source without the bytes inside   *)
(* the spans of the removed declarations, every other byte kept in order,   *)
(* in whatever order the declarations are given; with none removed it is    *)
(* the source itself.                                                       *)
(***************************************************************************)
C8_GetCodeKeepsTheRest ==
    pc = "edited" =>
        /\ code = KeptText(mod.source, removed)
        /\ removed = <<>> => code = mod.source

C8_Witness ==
    /\ pc = "edited"
    /\ Len(removed) = 2
    /\ removed[1].start > removed[2].start
    /\ Len(code) > 0
    /\ Len(code) < Len(mod.source)

(***************************************************************************)
(* C9: once the resolution, load or parse of a module of a chunk has        *)
(* failed, the chunk's build is rejected and so is treeShaker(): the caller *)
(* holds no handle and no generate() has returned a text, also while and    *)
(* after other resolutions of the chunk go on registering modules.          *)
(***************************************************************************)
C9_NoHandleAfterFailure ==
    \A c \in DOMAIN chunks :
        (\E t \in DOMAIN chunks[c].graph.tasks :
            chunks[c].graph.tasks[t].phase = "rejected")
        => /\ BuildStatus(c) = "rejected"
           /\ handle = "rejected"
           /\ outputs = <<>>

\* f.js imports g.js and the malformed s.js.  The build was rejected by s.js's
\* SyntaxError before g.js was registered: had g.js been registered first, its
\* own unresolvable import would have rejected the build with a TypeError.
C9_Witness ==
    /\ handle = "rejected"
    /\ \E c \in DOMAIN chunks :
          /\ options[c].source = "./f.js"
          /\ chunks[c].graph.tasks[1].error = "SyntaxError"
          /\ \E i \in DOMAIN chunks[c].graph.modules :
                chunks[c].graph.modules[i].key.href = "file:///src/g.js"

\* the graphs hold what build() made of the files, and the outputs agree
AsBuilt ==
    handle = "obtained" =>
        /\ \A c \in DOMAIN chunks :
              \A i \in DOMAIN chunks[c].graph.modules :
                    LET entry == chunks[c].graph.modules[i]
                    IN  /\ entry.value.resolvedPath = entry.key.href
                        /\ entry.value.source = FileTexts[entry.key.href]
                        /\ entry.value.program = Programs[entry.key.href]
        /\ \A k \in DOMAIN outputs : outputs[k] = outputs[1]

C10_Witness ==
    /\ Len(outputs) >= 2
    /\ \E c \in DOMAIN chunks : Len(chunks[c].graph.modules) >= 2

(***************************************************************************)
(* C10: once the handle is obtained, calls of generate() leave the module   *)
(* map and every module's stored source and syntax tree as build() made     *)
(* them, and every call returns what the first returned.                    *)
(***************************************************************************)
C10_GenerateIdempotent ==
    /\ []AsBuilt
    /\ [][handle = "obtained" => chunks' = chunks]_vars

\* every entry of a module map holds a module whose init() has completed: it
\* was registered by an invocation that is past its load, with the text and the
\* program of its file
RegisteredInitialized(graph) ==
    \A i \in DOMAIN graph.modules :
        LET entry == graph.modules[i]
        IN  /\ graph.tasks[entry.key.id].phase # "loading"
            /\ entry.value.resolvedPath = entry.key.href
            /\ entry.value.source = FileTexts[entry.key.href]
            /\ entry.value.program = Programs[entry.key.href]

\* a resolved build has nothing in flight and holds every reachable module
BuildComplete(c) ==
    LET graph == chunks[c].graph
    IN  /\ \A t \in DOMAIN graph.tasks : graph.tasks[t].phase = "fulfilled"
        /\ \A href \in ReachableFrom({EntryOf(c)}, {}) :
              \E i \in DOMAIN graph.modules : graph.modules[i].key.href = href

C11_Witness ==
    \E c \in DOMAIN chunks :
        /\ options[c].source = "./e.js"
        /\ BuildStatus(c) = "fulfilled"
        /\ \E i \in DOMAIN chunks[c].graph.modules :
              chunks[c].graph.modules[i].key.href = "file:///src/y.js"
        /\ \E i \in DOMAIN chunks[c].graph.modules :
              chunks[c].graph.modules[i].key.href = "file:///src/z.js"

(***************************************************************************)
(* C11: build() resolves only when every module reachable from the entry    *)
(* through import declarations, used or not, is initialized and registered  *)
(* and no resolution is in flight; after it has resolved the graph gets no  *)
(* further registration; and a module is registered only once its own       *)
(* initialization has completed.                                            *)
(***************************************************************************)
C11_BuildResolvesLast ==
    /\ [](\A c \in DOMAIN chunks :
            /\ RegisteredInitialized(chunks[c].graph)
            /\ BuildStatus(c) = "fulfilled" => BuildComplete(c))
    /\ [][\A c \in DOMAIN chunks :
            BuildStatus(c) = "fulfilled" => chunks'[c].graph = chunks[c].graph]_vars

====
